---- MODULE Spec2Model ----
(***************************************************************************)
(* Model of the Prodepa services dashboard (src/app.py): the cached        *)
(* loader carregar_dados and the request handler main.                     *)
(*                                                                         *)
(* Text is a sequence of characters.  An ASCII character is the one-char   *)
(* string; a non-ASCII character is written as its HTML entity, so         *)
(* "&aacute;" is the single character U+00E1 and "&#769;" is the single    *)
(* combining character U+0301.                                             *)
(* A float that is a decimal number is the record [n, k] standing for      *)
(* n / 10^k with no trailing zero digit in the fraction, so that equal     *)
(* numbers are equal records.                                              *)
(***************************************************************************)
EXTENDS Integers, Sequences, FiniteSets, TLC

VARIABLES
    now,          \* the clock of the cache, in seconds
    cache,        \* the entry st.cache_data holds for carregar_dados, or NoEntry
    source,       \* what the published spreadsheet serves at CSV_URL
    run,          \* what the last run of main did and handed to the page
    raw,          \* input of a step studied on its own
    pc,           \* position of that step
    result,       \* its output
    pandas_infers \* the installed pandas takes one date format for a whole
                  \* column from its first value (2.0 and later) or reads
                  \* each value on its own (before 2.0)

vars == <<now, cache, source, run, raw, pc, result, pandas_infers>>

None == [kind |-> "None"]

\* ------------------------------------------------------------------ text

Digits == <<"0", "1", "2", "3", "4", "5", "6", "7", "8", "9">>

IsDigit(c) == \E i \in 1..10 : Digits[i] = c

DigitVal(c) == (CHOOSE i \in 1..10 : Digits[i] = c) - 1

\* str.isspace of one character
IsSpace(c) == c \in {" ", "\t"}

RECURSIVE Concat(_)
\* ''.join(parts)
Concat(parts) ==
    IF parts = <<>> THEN <<>> ELSE Head(parts) \o Concat(Tail(parts))

StartsWith(s, p) ==
    /\ Len(p) <= Len(s)
    /\ SubSeq(s, 1, Len(p)) = p

RECURSIVE Replace(_, _, _)
\* str.replace(old, new) for a non-empty old: left to right, non-overlapping
Replace(s, old, new) ==
    IF s = <<>> THEN <<>>
    ELSE IF StartsWith(s, old)
         THEN new \o Replace(SubSeq(s, Len(old) + 1, Len(s)), old, new)
         ELSE <<Head(s)>> \o Replace(Tail(s), old, new)

RECURSIVE LStrip(_)
LStrip(s) == IF s # <<>> /\ IsSpace(Head(s)) THEN LStrip(Tail(s)) ELSE s

RECURSIVE RStrip(_)
RStrip(s) ==
    IF s # <<>> /\ IsSpace(s[Len(s)]) THEN RStrip(SubSeq(s, 1, Len(s) - 1)) ELSE s

\* str.strip()
Strip(s) == RStrip(LStrip(s))

LowerCase ==
    <<"a", "b", "c", "d", "e", "f", "g", "h", "i", "j", "k", "l", "m",
      "n", "o", "p", "q", "r", "s", "t", "u", "v", "w", "x", "y", "z",
      "&aacute;", "&atilde;", "&ccedil;", "&eacute;", "&iacute;">>

UpperCase ==
    <<"A", "B", "C", "D", "E", "F", "G", "H", "I", "J", "K", "L", "M",
      "N", "O", "P", "Q", "R", "S", "T", "U", "V", "W", "X", "Y", "Z",
      "&Aacute;", "&Atilde;", "&Ccedil;", "&Eacute;", "&Iacute;">>

\* str.upper() of one character; the sharp s has no single upper-case character
UpperChar(c) ==
    IF c = "&szlig;" THEN <<"S", "S">>
    ELSE IF \E i \in 1..Len(LowerCase) : LowerCase[i] = c
         THEN <<UpperCase[CHOOSE i \in 1..Len(LowerCase) : LowerCase[i] = c]>>
         ELSE <<c>>

\* str.upper()
Upper(s) == Concat([i \in 1..Len(s) |-> UpperChar(s[i])])

\* the characters with a canonical decomposition, each with its base character
\* and its combining mark (U+0301 acute, U+0303 tilde, U+0327 cedilla)
Decomposition ==
    <<<<"&aacute;", "a", "&#769;">>, <<"&Aacute;", "A", "&#769;">>,
      <<"&atilde;", "a", "&#771;">>, <<"&Atilde;", "A", "&#771;">>,
      <<"&ccedil;", "c", "&#807;">>, <<"&Ccedil;", "C", "&#807;">>,
      <<"&eacute;", "e", "&#769;">>, <<"&Eacute;", "E", "&#769;">>,
      <<"&iacute;", "i", "&#769;">>, <<"&Iacute;", "I", "&#769;">>>>

\* unicodedata.normalize('NFD', c) of one character
NFDChar(c) ==
    IF \E i \in 1..Len(Decomposition) : Decomposition[i][1] = c
    THEN Tail(Decomposition[CHOOSE i \in 1..Len(Decomposition) : Decomposition[i][1] = c])
    ELSE <<c>>

NFD(s) == Concat([i \in 1..Len(s) |-> NFDChar(s[i])])

\* unicodedata.category(c) == 'Mn'
IsMn(c) == c \in {"&#769;", "&#771;", "&#807;"}

keep_non_Mn(c) == ~IsMn(c)

\* strip_accents with the marks dropped before the text is decomposed
strip_accents_filter_first(text) == NFD(SelectSeq(text, keep_non_Mn))

\* strip_accents(text) of a text
strip_accents(text) == SelectSeq(NFD(text), keep_non_Mn)

\* ---------------------------------------------------------------- cells

\* a text cell
Str(s) == [kind |-> "str", s |-> s]

\* the missing marker of a cell (NaN; NaT in a date column)
NaN == [kind |-> "nan"]

RECURSIVE Dec(_, _)
\* the float n / 10^k
Dec(n, k) ==
    IF k > 0 /\ n % 10 = 0 THEN Dec(n \div 10, k - 1)
    ELSE [kind |-> "float", n |-> n, k |-> k]

\* Series.astype(str) of one cell
AsStr(cell) ==
    CASE cell.kind = "str" -> cell.s
      [] cell.kind = "nan" -> <<"n", "a", "n">>

RECURSIVE ToNat(_)
\* the number a run of digits writes
ToNat(ds) ==
    IF ds = <<>> THEN 0 ELSE 10 * ToNat(SubSeq(ds, 1, Len(ds) - 1)) + DigitVal(ds[Len(ds)])

AllDigits(s) == \A i \in 1..Len(s) : IsDigit(s[i])

\* where the first "." of s is, Len(s) + 1 when it has none
PointAt(s) ==
    IF \E i \in 1..Len(s) : s[i] = "."
    THEN CHOOSE i \in 1..Len(s) : s[i] = "." /\ \A j \in 1..(i - 1) : s[j] # "."
    ELSE Len(s) + 1

\* float(text): surrounding whitespace is ignored, then 'nan', or an optional
\* sign, digits and at most one point with a digit on one side of it at least
\* (the texts of this model hold no exponent, underscore or 'inf')
ParseFloat(text) ==
    LET t      == Strip(text)
        signed == t # <<>> /\ Head(t) \in {"-", "+"}
        body   == IF signed THEN Tail(t) ELSE t
        p      == PointAt(body)
        int    == SubSeq(body, 1, p - 1)
        frac   == SubSeq(body, p + 1, Len(body))
        mag    == Dec(ToNat(int \o frac), Len(frac))
    IN  IF body = <<"n", "a", "n">> THEN [ok |-> TRUE, v |-> NaN]
        ELSE IF AllDigits(int) /\ AllDigits(frac) /\ Len(int) + Len(frac) >= 1
        THEN [ok |-> TRUE,
              v  |-> IF signed /\ Head(t) = "-" THEN [mag EXCEPT !.n = 0 - mag.n] ELSE mag]
        ELSE [ok |-> FALSE]

\* ------------------------------------------------------------- currency

\* the cleaning of VALOR_ATUAL without its '.' removal
limpar_valor_keeps_points(cell) ==
    ParseFloat(Strip(Replace(Replace(AsStr(cell), <<"R", "$">>, <<>>), <<",">>, <<".">>)))

\* one cell of VALOR_ATUAL_LIMPO: astype(str), the three replaces, strip, float
limpar_valor(cell) ==
    ParseFloat(Strip(
        Replace(Replace(Replace(AsStr(cell), <<"R", "$">>, <<>>), <<".">>, <<>>),
                <<",">>, <<".">>)))

RECURSIVE DigitsOf(_)
\* the decimal digits of a natural number
DigitsOf(n) ==
    IF n < 10 THEN <<Digits[n + 1]>> ELSE DigitsOf(n \div 10) \o <<Digits[(n % 10) + 1]>>

RECURSIVE Group(_)
\* the ',' option of the format: a comma before every three digits from the right
Group(ds) ==
    IF Len(ds) <= 3 THEN ds
    ELSE Group(SubSeq(ds, 1, Len(ds) - 3)) \o <<",">> \o SubSeq(ds, Len(ds) - 2, Len(ds))

\* f"{x:,.2f}" of a non-negative amount of centavos
FormatFixed2(centavos) ==
    Group(DigitsOf(centavos \div 100))
        \o <<".", Digits[((centavos \div 10) % 10) + 1], Digits[(centavos % 10) + 1]>>

\* the text of the "Total Arrecadado" metric
formatar_total(centavos) ==
    Replace(Replace(Replace(<<"R", "$", " ">> \o FormatFixed2(centavos),
                            <<",">>, <<"X">>), <<".">>, <<",">>), <<"X">>, <<".">>)

\* -------------------------------------------------------------- headers

\* one name of the df.columns comprehension
padronizar_cabecalho(col) ==
    Replace(Strip(Upper(strip_accents(col))), <<" ">>, <<"_">>)

\* df.columns = [ ... for col in df.columns]
padronizar_cabecalhos(columns) ==
    [i \in 1..Len(columns) |-> padronizar_cabecalho(columns[i])]

\* ----------------------------------------------------------- data frame
\* A DataFrame is [columns, rows]: the column names in order and, per record,
\* its cells in the order of the columns.  Column names are taken to be
\* distinct, as they are in the published sheet.

STATUS == <<"S", "T", "A", "T", "U", "S">>

SERVICO == <<"S", "E", "R", "V", "I", "C", "O">>

SITUACAO_DO_CONTRATO ==
    <<"S", "I", "T", "U", "A", "C", "A", "O", "_", "D", "O", "_", "C", "O", "N", "T", "R", "A", "T", "O">>

GRANDEZA == <<"G", "R", "A", "N", "D", "E", "Z", "A">>

MUNICIPIO == <<"M", "U", "N", "I", "C", "I", "P", "I", "O">>

DATA_INICIO == <<"D", "A", "T", "A", "_", "I", "N", "I", "C", "I", "O">>

VALOR_ATUAL == <<"V", "A", "L", "O", "R", "_", "A", "T", "U", "A", "L">>

VALOR_ATUAL_LIMPO ==
    <<"V", "A", "L", "O", "R", "_", "A", "T", "U", "A", "L", "_", "L", "I", "M", "P", "O">>

BANDA_MB == <<"B", "A", "N", "D", "A", "_", "M", "B">>

\* col in df.columns
InColumns(df, col) == \E i \in 1..Len(df.columns) : df.columns[i] = col

ColAt(df, col) == CHOOSE i \in 1..Len(df.columns) : df.columns[i] = col

\* df[col]
Series(df, col) == [r \in 1..Len(df.rows) |-> df.rows[r][ColAt(df, col)]]

\* df[col] = series: the column is replaced, or added as the last one
Assign(df, col, series) ==
    IF InColumns(df, col)
    THEN [df EXCEPT !.rows =
             [r \in 1..Len(df.rows) |-> [df.rows[r] EXCEPT ![ColAt(df, col)] = series[r]]]]
    ELSE [columns |-> Append(df.columns, col),
          rows    |-> [r \in 1..Len(df.rows) |-> Append(df.rows[r], series[r])]]

RECURSIVE Masked(_, _)
\* df[mask]: the records whose mask is True, in their order
Masked(rows, mask) ==
    IF rows = <<>> THEN <<>>
    ELSE (IF Head(mask) THEN <<Head(rows)>> ELSE <<>>) \o Masked(Tail(rows), Tail(mask))

\* Series.unique(), as the set of its values
Unique(series) == {series[r] : r \in 1..Len(series)}

\* df[df[col].isin(sel)]
isin(df, col, sel) ==
    [df EXCEPT !.rows =
        Masked(df.rows, [r \in 1..Len(df.rows) |-> Series(df, col)[r] \in sel])]

\* ------------------------------------------------- text normalisation

\* the lambda of line 41 after astype(str)
padronizar_texto(cell) == Str(Strip(Upper(strip_accents(AsStr(cell)))))

RECURSIVE padronizar_colunas(_, _)
\* lines 36-42: each of the named columns that is present
padronizar_colunas(df, cols) ==
    IF cols = <<>> THEN df
    ELSE LET col  == Head(cols)
             done == IF InColumns(df, col)
                     THEN Assign(df, col,
                                 [r \in 1..Len(df.rows) |-> padronizar_texto(Series(df, col)[r])])
                     ELSE df
         IN  padronizar_colunas(done, Tail(cols))

\* ------------------------------------------------------------ bandwidth

\* positions of the first match of \d+ in a text: <<first, last>>, or <<>>
FirstDigitRun(s) ==
    IF \E i \in 1..Len(s) : IsDigit(s[i])
    THEN LET i == CHOOSE a \in 1..Len(s) :
                      IsDigit(s[a]) /\ \A b \in 1..(a - 1) : ~IsDigit(s[b])
             j == CHOOSE a \in i..Len(s) :
                      /\ \A b \in i..a : IsDigit(s[b])
                      /\ (a = Len(s) \/ ~IsDigit(s[a + 1]))
         IN  <<i, j>>
    ELSE <<>>

\* str.extract that gives 0 where nothing matches
extrair_banda_zero(cell) ==
    LET m == FirstDigitRun(cell.s)
    IN  IF m = <<>> THEN Dec(0, 0) ELSE Dec(ToNat(SubSeq(cell.s, m[1], m[2])), 0)

\* .str.extract(r'(\d+)').astype(float) of one cell of GRANDEZA
extrair_banda(cell) ==
    LET m == FirstDigitRun(cell.s)
    IN  IF m = <<>> THEN NaN ELSE Dec(ToNat(SubSeq(cell.s, m[1], m[2])), 0)

\* lines 104-109 of main
derivar_banda(df) ==
    IF ~InColumns(df, BANDA_MB) /\ InColumns(df, GRANDEZA)
    THEN Assign(df, BANDA_MB,
                [r \in 1..Len(df.rows) |-> extrair_banda(Series(df, GRANDEZA)[r])])
    ELSE df


\* ---------------------------------------------------------------- dates
\* pd.to_datetime(column, dayfirst=True, errors='coerce') on texts written
\* as two short fields and a four-digit year, or as a four-digit year and
\* two short fields, with '/' or '-' between them.

RECURSIVE Split(_, _)
\* str.split(sep)
Split(s, sep) ==
    IF \E i \in 1..Len(s) : s[i] = sep
    THEN LET i == CHOOSE a \in 1..Len(s) : s[a] = sep /\ \A b \in 1..(a - 1) : s[b] # sep
         IN  <<SubSeq(s, 1, i - 1)>> \o Split(SubSeq(s, i + 1, Len(s)), sep)
    ELSE <<s>>

\* the character between the fields of a date text
Separator(s) == IF \E i \in 1..Len(s) : s[i] = "/" THEN "/" ELSE "-"

\* the parts f of a split text when they are three numbers, else <<>>
ThreeNumbers(f) ==
    IF Len(f) = 3 /\ \A i \in 1..3 : f[i] # <<>> /\ AllDigits(f[i]) THEN f ELSE <<>>

\* the three number fields of a date text, or <<>>
Fields(s) == ThreeNumbers(Split(s, Separator(s)))

IsLeap(y) == (y % 4 = 0 /\ y % 100 # 0) \/ y % 400 = 0

DaysIn(m, y) ==
    IF m = 2 THEN (IF IsLeap(y) THEN 29 ELSE 28)
    ELSE IF m \in {4, 6, 9, 11} THEN 30 ELSE 31

ValidDate(y, m, d) == m \in 1..12 /\ d \in 1..DaysIn(m, y)

Date(y, m, d) == [kind |-> "date", y |-> y, m |-> m, d |-> d]

\* the date of a year of four digits and a month and a day of one or two,
\* or NaN when there is no such day
DateOf(yf, mf, df) ==
    IF Len(yf) = 4 /\ Len(mf) <= 2 /\ Len(df) <= 2
       /\ ValidDate(ToNat(yf), ToNat(mf), ToNat(df))
    THEN Date(ToNat(yf), ToNat(mf), ToNat(df))
    ELSE NaN

\* the fields f read in one layout ("dmy", "mdy" or "ymd"): a date, or NaN
ReadFields(f, layout) ==
    IF f = <<>> THEN NaN
    ELSE IF layout = "ymd" THEN DateOf(f[1], f[2], f[3])
    ELSE IF layout = "dmy" THEN DateOf(f[3], f[2], f[1])
    ELSE DateOf(f[3], f[1], f[2])

\* the text read in one layout: a date, or NaN
Reading(s, layout) == ReadFields(Fields(s), layout)

\* the layout in which a text reads with dayfirst=True: the year first when
\* the text starts with it, the day first when that is a date, else the month
\* first (dayfirst is a preference, not a constraint); "none" when no layout reads
LayoutOf(s) ==
    IF Reading(s, "ymd") # NaN THEN "ymd"
    ELSE IF Reading(s, "dmy") # NaN THEN "dmy"
    ELSE IF Reading(s, "mdy") # NaN THEN "mdy"
    ELSE "none"

\* one value read on its own
ParseAlone(cell) ==
    IF cell = NaN \/ LayoutOf(cell.s) = "none" THEN NaN
    ELSE Reading(cell.s, LayoutOf(cell.s))

\* one value read in the format of the column
ParseWith(cell, layout, sep) ==
    IF cell = NaN \/ Separator(cell.s) # sep THEN NaN ELSE Reading(cell.s, layout)

NonNull(col) == {i \in 1..Len(col) : col[i] # NaN}

\* the first value that is not missing, which gives the column its format
FirstNonNull(col) == col[CHOOSE i \in NonNull(col) : \A j \in NonNull(col) : i <= j]

\* the format guessed for the column: the layout of its first value, or
\* "none" when nothing is guessed and each value is read on its own
GuessFormat(col, infers) ==
    IF infers /\ NonNull(col) # {} THEN LayoutOf(FirstNonNull(col).s) ELSE "none"

\* the column read with the format guessed for it
ParseColumn(col, guessed) ==
    [i \in 1..Len(col) |->
        IF guessed = "none" THEN ParseAlone(col[i])
        ELSE ParseWith(col[i], guessed, Separator(FirstNonNull(col).s))]

\* what errors= makes of the column read: 'raise' refuses a value that did
\* not parse, 'coerce' leaves it NaT
OnErrors(col, out, errors) ==
    IF errors = "raise" /\ \E i \in NonNull(col) : out[i] = NaN
    THEN [ok |-> FALSE]
    ELSE [ok |-> TRUE, col |-> out]

\* pd.to_datetime(col, dayfirst=True, errors=errors): [ok, col]
to_datetime(col, errors, infers) ==
    OnErrors(col, ParseColumn(col, GuessFormat(col, infers)), errors)

\* to_datetime without errors='coerce'
converter_datas_raise(col, infers) == to_datetime(col, "raise", infers)

\* lines 46-50 on the column DATA_INICIO
converter_datas(col, infers) == to_datetime(col, "coerce", infers)


\* --------------------------------------------------------- carregar_dados

texto_colunas == <<STATUS, SERVICO, GRANDEZA, MUNICIPIO>>

\* lines 53-62: [ok, df]; one cell that float() refuses fails the whole step
limpar_valores(df) ==
    IF ~InColumns(df, VALOR_ATUAL) THEN [ok |-> TRUE, df |-> df]
    ELSE LET limpo == [r \in 1..Len(df.rows) |-> limpar_valor(Series(df, VALOR_ATUAL)[r])]
         IN  IF \A r \in 1..Len(df.rows) : limpo[r].ok
             THEN [ok |-> TRUE,
                   df |-> Assign(df, VALOR_ATUAL_LIMPO,
                                 [r \in 1..Len(df.rows) |-> limpo[r].v])]
             ELSE [ok |-> FALSE, df |-> df]

\* df['DATA_INICIO'] = datas, when to_datetime returned it
atribuir_datas(df, datas) ==
    IF datas.ok THEN [ok |-> TRUE, df |-> Assign(df, DATA_INICIO, datas.col)]
    ELSE [ok |-> FALSE, df |-> df]

\* lines 45-50: [ok, df]
converter_coluna_datas(df, infers) ==
    IF ~InColumns(df, DATA_INICIO) THEN [ok |-> TRUE, df |-> df]
    ELSE atribuir_datas(df, converter_datas(Series(df, DATA_INICIO), infers))

\* lines 52-62 run when lines 45-50 did not raise
apos_datas(datas) == IF datas.ok THEN limpar_valores(datas.df) ELSE datas

\* carregar_dados(), given what pd.read_csv(CSV_URL) does: [ok, df], where a
\* failed load has ok = FALSE and df is the local df when the exception left
carregar_dados(csv, infers) ==
    IF ~csv.ok THEN [ok |-> FALSE, df |-> None]
    ELSE apos_datas(
             converter_coluna_datas(
                 padronizar_colunas([csv.df EXCEPT !.columns = padronizar_cabecalhos(@)],
                                    texto_colunas),
                 infers))


\* ---------------------------------------------------------- group sums

RECURSIVE Pow10(_)
Pow10(k) == IF k = 0 THEN 1 ELSE 10 * Pow10(k - 1)

\* x + y of two floats
Add(x, y) ==
    LET k == IF x.k > y.k THEN x.k ELSE y.k
    IN  Dec(x.n * Pow10(k - x.k) + y.n * Pow10(k - y.k), k)

RECURSIVE Sum(_)
\* Series.sum(): missing values are skipped, and nothing sums to 0.0
Sum(series) ==
    IF series = <<>> THEN Dec(0, 0)
    ELSE IF Head(series) = NaN THEN Sum(Tail(series))
         ELSE Add(Head(series), Sum(Tail(series)))

\* x <= y of two floats
Leq(x, y) ==
    LET k == IF x.k > y.k THEN x.k ELSE y.k
    IN  x.n * Pow10(k - x.k) <= y.n * Pow10(k - y.k)

\* df.groupby(by)[col].sum(), as the sum of each key found in the column by
GroupSum(df, by, col) ==
    [key \in Unique(Series(df, by)) |->
        Sum(Masked(Series(df, col),
                   [r \in 1..Len(df.rows) |-> Series(df, by)[r] = key]))]

\* the orders in which a set can be listed
Orders(S) ==
    {o \in [1..Cardinality(S) -> S] : \A i, j \in 1..Cardinality(S) : i # j => o[i] # o[j]}

\* the groups in any order at all
sort_values_unsorted(sums, ascending) == Orders(DOMAIN sums)

\* Series.sort_values(ascending=...), kind='quicksort': the orders it may give.
\* The sort is not stable, so groups of equal sums come in any order.
sort_values(sums, ascending) ==
    {o \in Orders(DOMAIN sums) :
        \A i \in 1..(Len(o) - 1) :
            IF ascending THEN Leq(sums[o[i]], sums[o[i + 1]])
            ELSE Leq(sums[o[i + 1]], sums[o[i]])}

TopN == 15

\* Series.head(n)
head(o, n) == SubSeq(o, 1, IF Len(o) < n THEN Len(o) ELSE n)

\* a ranking as handed to st.bar_chart: each group with its sum, in order
Ranked(sums, o) == [i \in 1..Len(o) |-> [grupo |-> o[i], soma |-> sums[o[i]]]]


\* -------------------------------------------------------------- filters

\* the choices st.sidebar.multiselect offers: any part of the options, which
\* are the values of the column in the dataset as filtered so far
Selecoes(df, col) ==
    IF InColumns(df, col) THEN SUBSET Unique(Series(df, col)) ELSE {{}}

\* the filter that keeps the records outside the selection
filtro_exclui(df, col, sel) ==
    IF InColumns(df, col)
    THEN isin(df, col, Unique(Series(df, col)) \ sel)
    ELSE df

\* the filter that takes an empty selection for no filter
filtro_vazio_e_tudo(df, col, sel) ==
    IF InColumns(df, col) /\ sel # {} THEN isin(df, col, sel) ELSE df

\* one of the three blocks of lines 78-96: if col in df.columns, df = df[df[col].isin(sel)]
filtro(df, col, sel) ==
    IF InColumns(df, col) THEN isin(df, col, sel) ELSE df


\* ------------------------------------------------------ the cache, idle

\* st.cache_data holds nothing for carregar_dados
NoEntry == [kind |-> "NoEntry"]

\* the dashboard is not looked at: the steps below are studied on their own
Parado ==
    /\ now = 0
    /\ cache = NoEntry
    /\ source = None
    /\ run = None

\* ============================================================ the dashboard

TTL == 3600

MaxJanelas == 2

\* the sheet with every column the dashboard knows
planilha_completa ==
    [columns |->
        <<<<"S", "t", "a", "t", "u", "s">>,
          <<"S", "e", "r", "v", "i", "&ccedil;", "o">>,
          <<"S", "i", "t", "u", "a", "&ccedil;", "&atilde;", "o", " ", "d", "o", " ", "C", "o", "n", "t", "r", "a", "t", "o">>,
          <<"G", "r", "a", "n", "d", "e", "z", "a">>,
          <<"M", "u", "n", "i", "c", "&iacute;", "p", "i", "o">>,
          <<"D", "a", "t", "a", " ", "I", "n", "i", "c", "i", "o">>,
          <<"V", "a", "l", "o", "r", " ", "A", "t", "u", "a", "l">>>>,
     rows |->
        <<<<Str(<<"A", "t", "i", "v", "o">>),
            Str(<<"R", "&aacute;", "d", "i", "o">>),
            Str(<<"V", "i", "g", "e", "n", "t", "e">>),
            Str(<<"1", "0", "0", " ", "M", "B">>),
            Str(<<"B", "e", "l", "&eacute;", "m">>),
            Str(<<"2", "5", "/", "1", "2", "/", "2", "0", "2", "3">>),
            Str(<<"R", "$", " ", "1", ".", "2", "3", "4", ",", "5", "6">>)>>,
          <<Str(<<" ", "a", "t", "i", "v", "o">>),
            Str(<<"F", "i", "b", "r", "a">>),
            Str(<<"E", "n", "c", "e", "r", "r", "a", "d", "o">>),
            Str(<<"1", " ", "G", "B">>),
            Str(<<"b", "e", "l", "e", "m", " ">>),
            Str(<<"a", " ", "d", "e", "f", "i", "n", "i", "r">>),
            Str(<<"R", "$", " ", "1", "0", "0", ",", "0", "0">>)>>,
          <<Str(<<"I", "n", "a", "t", "i", "v", "o">>),
            Str(<<"f", "i", "b", "r", "a">>),
            NaN,
            NaN,
            Str(<<"M", "a", "r", "a", "b", "&aacute;">>),
            NaN,
            NaN>>>>]

\* a sheet with no column to filter by
planilha_enxuta ==
    [columns |->
        <<<<"G", "r", "a", "n", "d", "e", "z", "a">>,
          <<"M", "u", "n", "i", "c", "&iacute;", "p", "i", "o">>>>,
     rows |->
        <<<<Str(<<"1", "0", "0", " ", "M", "B">>),
            Str(<<"B", "e", "l", "&eacute;", "m">>)>>,
          <<Str(<<"b", "a", "n", "d", "a", " ", "l", "a", "r", "g", "a">>),
            Str(<<"M", "a", "r", "a", "b", "&aacute;">>)>>>>]

\* a sheet with a value that is no number
planilha_valor_invalido ==
    [columns |->
        <<<<"S", "t", "a", "t", "u", "s">>,
          <<"D", "a", "t", "a", " ", "I", "n", "i", "c", "i", "o">>,
          <<"V", "a", "l", "o", "r", " ", "A", "t", "u", "a", "l">>>>,
     rows |->
        <<<<Str(<<"A", "t", "i", "v", "o">>),
            Str(<<"2", "5", "/", "1", "2", "/", "2", "0", "2", "3">>),
            Str(<<"R", "$", " ", "1", "0", ",", "0", "0">>)>>,
          <<Str(<<"a", "t", "i", "v", "o">>),
            Str(<<"0", "1", "/", "0", "2", "/", "2", "0", "2", "3">>),
            Str(<<"a", " ", "c", "o", "m", "b", "i", "n", "a", "r">>)>>>>]

\* what CSV_URL may serve: one of the sheets, a page that is no table, or nothing
Publicacoes == {"completa", "enxuta", "valor_invalido", "malformada", "fora_do_ar"}

\* pd.read_csv(CSV_URL): [ok, df]; ok = FALSE when it raises
read_csv(publicado) ==
    CASE publicado = "completa" -> [ok |-> TRUE, df |-> planilha_completa]
      [] publicado = "enxuta" -> [ok |-> TRUE, df |-> planilha_enxuta]
      [] publicado = "valor_invalido" -> [ok |-> TRUE, df |-> planilha_valor_invalido]
      [] OTHER -> [ok |-> FALSE]

\* an entry that is never taken for expired
expired_never(entry, t) == FALSE

\* ttl=3600: an entry stored at entry.stored is gone at time t
expired(entry, t) == t - entry.stored >= TTL

\* every df the function got to is stored, also the one a raise left behind
publica_parcial(loaded) == loaded.df # None

\* st.cache_data stores the value carregar_dados returns, so only of a call
\* that returned
publica(loaded) == loaded.ok

\* the caller is handed the stored object itself
devolve_o_guardado(hit) == "guardado"

\* what the caller of the cached function holds: st.cache_data stores the
\* value pickled, so the caller holds the computed value (a miss) or a fresh
\* unpickled copy (a hit), never the stored object
devolve(hit) == "copia"

Init ==
    /\ now = 0
    /\ cache = NoEntry
    /\ source \in Publicacoes
    /\ run = None
    /\ pandas_infers \in BOOLEAN
    /\ raw = None
    /\ pc = "painel"
    /\ result = None

\* how far the clock moves between two events: just short of the window, or
\* the whole of it
Passos == {TTL - 1, TTL}

\* carregar_dados() on each thing CSV_URL may serve, with either pandas
Carregado ==
    [p \in Publicacoes, infers \in BOOLEAN |-> carregar_dados(read_csv(p), infers)]

\* time passes
Tick ==
    /\ \E d \in Passos :
          /\ now + d <= MaxJanelas * TTL
          /\ now' = now + d
    /\ UNCHANGED <<cache, source, run, raw, pc, result, pandas_infers>>

\* the sheet is edited, unpublished or broken
Republicar ==
    /\ \E p \in Publicacoes \ {source} : source' = p
    /\ UNCHANGED <<now, cache, run, raw, pc, result, pandas_infers>>

\* one run of main: lines 69-198
Main ==
    /\ \E hit \in {cache # NoEntry /\ ~expired(cache, now)} :
       \E loaded \in {IF hit THEN [ok |-> TRUE, df |-> cache.df]
                      ELSE Carregado[source, pandas_infers]} :
       \E stored \in {IF ~hit /\ publica(loaded)
                      THEN [df |-> loaded.df, stored |-> now]
                      ELSE cache} :
          IF ~loaded.ok
          THEN \* the exception leaves main at line 73
               /\ cache' = stored
               /\ run' = [fetch |-> TRUE, falhou |-> TRUE, antes |-> cache, em |-> now,
                          fonte |-> source, base |-> None, df |-> None, total |-> None]
          ELSE \E sel_status \in Selecoes(loaded.df, STATUS) :
               \E df1 \in {filtro(loaded.df, STATUS, sel_status)} :
               \E sel_serv \in Selecoes(df1, SERVICO) :
               \E df2 \in {filtro(df1, SERVICO, sel_serv)} :
               \E sel_situacao \in Selecoes(df2, SITUACAO_DO_CONTRATO) :
               \E df3 \in {filtro(df2, SITUACAO_DO_CONTRATO, sel_situacao)} :
               \* df[mask] is a new object; without it df is still what
               \* carregar_dados handed over
               \E obj \in {IF \E col \in {STATUS, SERVICO, SITUACAO_DO_CONTRATO} :
                                  InColumns(loaded.df, col)
                            THEN "copia" ELSE devolve(hit)} :
               \E final \in {derivar_banda(df3)} :
                  /\ cache' = IF obj = "guardado" /\ stored # NoEntry
                              THEN [stored EXCEPT !.df = final]
                              ELSE stored
                  /\ run' = [fetch |-> ~hit, falhou |-> FALSE,
                             antes |-> cache, em |-> now, fonte |-> source,
                             base |-> loaded.df, df |-> final,
                             total |->
                                 IF InColumns(final, SERVICO)
                                    /\ InColumns(final, VALOR_ATUAL_LIMPO)
                                 THEN Sum(Series(final, VALOR_ATUAL_LIMPO))
                                 ELSE None]
    /\ UNCHANGED <<now, source, raw, pc, result, pandas_infers>>

Next == Tick \/ Republicar \/ Main

Spec == Init /\ [][Next]_vars

\* the last run of main found a dataset held and not yet expired
Valido == run.antes # NoEntry /\ run.em - run.antes.stored < TTL

\* the dataset went through every step of carregar_dados
Completo(df) ==
    /\ \A i \in 1..Len(df.columns) :
          df.columns[i] = Replace(Strip(Upper(strip_accents(df.columns[i]))), <<" ">>, <<"_">>)
    /\ \A col \in {STATUS, SERVICO, GRANDEZA, MUNICIPIO} :
          InColumns(df, col) =>
              \A r \in 1..Len(df.rows) :
                  LET c == Series(df, col)[r]
                  IN  c.kind = "str" /\ c.s = Strip(Upper(strip_accents(c.s)))
    /\ InColumns(df, DATA_INICIO) =>
          \A r \in 1..Len(df.rows) : Series(df, DATA_INICIO)[r].kind \in {"date", "nan"}
    /\ InColumns(df, VALOR_ATUAL) =>
          /\ InColumns(df, VALOR_ATUAL_LIMPO)
          /\ \A r \in 1..Len(df.rows) :
                Series(df, VALOR_ATUAL_LIMPO)[r].kind \in {"float", "nan"}

\* C1: a request fetches exactly when no dataset is held or 3600 seconds
\* have passed since the held one was stored; a load that succeeds then
\* replaces the held dataset by the fully loaded one, stamped with the time
\* of the request; any other request gets the held dataset and leaves the
\* cache as it was.
C1_ReingestionExactlyOnMissOrExpiry ==
    run # None =>
        /\ run.fetch <=> (run.antes = NoEntry \/ run.em - run.antes.stored >= 3600)
        /\ (run.fetch /\ ~run.falhou) =>
              /\ cache = [df |-> run.base, stored |-> run.em]
              /\ Completo(run.base)
        /\ ~run.fetch =>
              /\ ~run.falhou
              /\ run.base = run.antes.df
              /\ cache = run.antes

\* a request 3600 seconds after the load fetched again, from a sheet that had
\* changed, and replaced the held dataset
C1_Witness ==
    /\ run # None
    /\ run.antes # NoEntry
    /\ run.em - run.antes.stored = 3600
    /\ run.fetch
    /\ ~run.falhou
    /\ cache.df # run.antes.df

\* C2: a load that fails leaves the cache as it was, and whatever the cache
\* holds went through every step of a load that succeeded.
C2_FailedLoadPublishesNothing ==
    /\ cache # NoEntry => Completo(cache.df)
    /\ (run # None /\ run.falhou) => (run.fetch /\ cache = run.antes)

\* the load failed on a value that is no number, after the headers, the texts
\* and the dates were done, with an expired dataset still in the cache
C2_Witness ==
    /\ run # None
    /\ run.falhou
    /\ run.fonte = "valor_invalido"
    /\ run.antes # NoEntry
    /\ cache = run.antes

\* C5: nothing main does to the dataset it was handed changes the held
\* dataset: after a run the cache holds, records and columns, the dataset
\* carregar_dados returned to that run, and a run within the window leaves
\* the cache as it found it and is handed the dataset that was held.
C5_HeldDatasetImmutable ==
    (run # None /\ ~run.falhou) =>
        /\ cache # NoEntry
        /\ cache.df.columns = run.base.columns
        /\ cache.df.rows = run.base.rows
        /\ Valido => (cache = run.antes /\ run.base = run.antes.df)

\* a run within the window, on a dataset with no column to filter by, added
\* BANDA_MB to its own dataset, and the held dataset has no such column
C5_Witness ==
    /\ run # None
    /\ ~run.falhou
    /\ ~run.fetch
    /\ \A col \in {STATUS, SERVICO, SITUACAO_DO_CONTRATO} : ~InColumns(run.base, col)
    /\ InColumns(run.df, BANDA_MB)
    /\ ~InColumns(cache.df, BANDA_MB)


\* ------------------------------------- currency text, there and back

MaxReais == 12

\* amounts of reais: the small ones, and those around each thousands separator
Reais ==
    (0..MaxReais)
        \cup {m + d : m \in {1000, 1000000}, d \in {-1, 0, 1, 234}}
        \cup {12345, 999999, 1234567, 21474835}

\* non-negative amounts with two decimal places, in centavos
Quantias == {r * 100 + c : r \in Reais, c \in 0..99}

InitMoeda ==
    /\ Parado
    /\ pandas_infers = TRUE
    /\ raw \in Quantias
    /\ pc = "total"
    /\ result = None

\* main shows the total: lines 152-156
ExibirTotal ==
    /\ pc = "total"
    /\ result' = Str(formatar_total(raw))
    /\ pc' = "exibido"
    /\ UNCHANGED <<now, cache, source, run, raw, pandas_infers>>

\* the shown text is a VALOR_ATUAL cell of the next load: lines 53-62
LimparTotal ==
    /\ pc = "exibido"
    /\ result' = limpar_valor(result)
    /\ pc' = "limpo"
    /\ UNCHANGED <<now, cache, source, run, raw, pandas_infers>>

NextMoeda == ExibirTotal \/ LimparTotal

SpecMoeda == InitMoeda /\ [][NextMoeda]_vars

\* C8: cleaning the text main shows for an amount gives the amount back:
\* parse(format(x)) = x for every non-negative x of whole centavos.
C8_ParseLeftInverseOfFormat ==
    pc = "limpo" => result = [ok |-> TRUE, v |-> Dec(raw, 2)]

\* an amount shown with two thousands separators went there and back
C8_Witness ==
    /\ pc = "limpo"
    /\ raw = 123456789
    /\ result.ok

\* ------------------------------------------------ header normalisation

MaxChars == 3

MaxCols == 2

\* plain, accented, blank, tab and a letter whose upper case is two letters
AlfabetoCabecalho == {"a", "&aacute;", " ", "\t", "&szlig;"}

\* the texts of at most n characters
Textos(alfabeto, n) == UNION {[1..k -> alfabeto] : k \in 0..n}

RECURSIVE Listas(_, _, _)
\* the lists of c texts of n characters in all
Listas(alfabeto, c, n) ==
    IF c = 0 THEN {<<>>}
    ELSE UNION {{<<h>> \o rest : rest \in Listas(alfabeto, c - 1, n - Len(h))} :
                   h \in Textos(alfabeto, n)}

InitCabecalho ==
    /\ Parado
    /\ pandas_infers = TRUE
    /\ raw \in UNION {Listas(AlfabetoCabecalho, c, MaxChars) : c \in 1..MaxCols}
    /\ pc = "lido"
    /\ result = None

\* lines 30-33, on the headers read_csv found
PadronizarCabecalhos ==
    /\ pc = "lido"
    /\ result' = [uma |-> padronizar_cabecalhos(raw)]
    /\ pc' = "padronizado"
    /\ UNCHANGED <<now, cache, source, run, raw, pandas_infers>>

\* lines 30-33 again, on names that are already normalised
PadronizarDeNovo ==
    /\ pc = "padronizado"
    /\ result' = [uma |-> result.uma, duas |-> padronizar_cabecalhos(result.uma)]
    /\ pc' = "repetido"
    /\ UNCHANGED <<now, cache, source, run, raw, pandas_infers>>

NextCabecalho == PadronizarCabecalhos \/ PadronizarDeNovo

SpecCabecalho == InitCabecalho /\ [][NextCabecalho]_vars

\* C9: header normalisation is idempotent, and it gives one name per raw
\* header, in the order of the raw headers.
C9_HeaderNormalizationIdempotent ==
    /\ pc \in {"padronizado", "repetido"} =>
          /\ Len(result.uma) = Len(raw)
          /\ \A i \in 1..Len(raw) :
                result.uma[i] = Replace(Strip(Upper(strip_accents(raw[i]))), <<" ">>, <<"_">>)
    /\ pc = "repetido" => result.duas = result.uma

\* two headers, the first with an accent and a blank inside
C9_Witness ==
    /\ pc = "repetido"
    /\ Len(raw) = 2
    /\ raw[1] = <<"&aacute;", " ", "a">>
    /\ result.uma[1] = <<"A", "_", "A">>
    /\ result.duas = result.uma

\* ------------------------------------------------- the date column alone

MaxDatas == 3

TwoDigits(n) == <<Digits[(n \div 10) + 1], Digits[(n % 10) + 1]>>

\* the numbers written in the two short fields: both a day and a month (1, 12),
\* and a day only (13)
CamposData == {1, 12, 13}

\* what a cell of the raw column holds: nothing, a text that is no date, two
\* short fields before the year 2023, or the year first
CelulasData ==
    {NaN, Str(<<"a", " ", "d", "e", "f", "i", "n", "i", "r">>)}
        \cup {Str(TwoDigits(a) \o <<"/">> \o TwoDigits(b) \o <<"/", "2", "0", "2", "3">>) :
                 a \in CamposData, b \in CamposData}
        \cup {Str(<<"2", "0", "2", "3", "-">> \o TwoDigits(1) \o <<"-">> \o TwoDigits(12))}

InitData ==
    /\ Parado
    /\ pandas_infers \in BOOLEAN
    /\ raw \in UNION {[1..n -> CelulasData] : n \in 0..MaxDatas}
    /\ pc = "lido"
    /\ result = None

\* lines 45-50 on the raw column
ConverterDatas ==
    /\ pc = "lido"
    /\ result' = converter_datas(raw, pandas_infers)
    /\ pc' = "convertido"
    /\ UNCHANGED <<now, cache, source, run, raw, pandas_infers>>

NextData == ConverterDatas

SpecData == InitData /\ [][NextData]_vars

\* a text that reads as a date in no layout
NaoEData(cell) == cell # NaN /\ LayoutOf(cell.s) = "none"

\* the dates a text can stand for
Leituras(cell, layouts) ==
    IF cell = NaN THEN {}
    ELSE {Reading(cell.s, l) : l \in layouts} \ {NaN}

\* cell i does not change the result of the other cells: they come out the
\* same with cell i missing
NaoMudaOutras(i) ==
    \A j \in 1..Len(raw) :
        j # i => result.col[j] = converter_datas([raw EXCEPT ![i] = NaN], pandas_infers).col[j]

MaxLinhas == 2

MaxGrandeza == 3

AlfabetoGrandeza == {"1", "0", "m"}

RECURSIVE Celulas(_, _, _)
\* the columns of c cells, each a text or missing, of n characters in all
Celulas(alfabeto, c, n) ==
    IF c = 0 THEN {<<>>}
    ELSE UNION {{<<cell>> \o rest :
                    rest \in Celulas(alfabeto, c - 1,
                                     n - (IF cell = NaN THEN 0 ELSE Len(cell.s)))} :
                   cell \in {NaN} \cup {Str(x) : x \in Textos(alfabeto, n)}}

\* what read_csv gives for a sheet with the column Grandeza alone, with it and
\* a column Banda MB, or with neither
QuadrosGrandeza(col) ==
    {[columns |-> <<<<"G", "r", "a", "n", "d", "e", "z", "a">>>>,
      rows    |-> [r \in 1..Len(col) |-> <<col[r]>>]],
     [columns |-> <<<<"G", "r", "a", "n", "d", "e", "z", "a">>, <<"B", "a", "n", "d", "a", " ", "M", "B">>>>,
      rows    |-> [r \in 1..Len(col) |-> <<col[r], Dec(50, 0)>>]],
     [columns |-> <<<<"S", "i", "t", "u", "a", "&ccedil;", "&atilde;", "o">>>>,
      rows    |-> [r \in 1..Len(col) |-> <<col[r]>>]]}

InitBanda ==
    /\ Parado
    /\ pandas_infers = TRUE
    /\ raw \in UNION {QuadrosGrandeza(col) :
                         col \in UNION {Celulas(AlfabetoGrandeza, c, MaxGrandeza) : c \in 0..MaxLinhas}}
    /\ pc = "lido"
    /\ result = None

\* carregar_dados on the sheet
CarregarGrandeza ==
    /\ pc = "lido"
    /\ result' = [carregado |-> carregar_dados([ok |-> TRUE, df |-> raw], pandas_infers).df]
    /\ pc' = "carregado"
    /\ UNCHANGED <<now, cache, source, run, raw, pandas_infers>>

\* lines 103-109 of main, with no filter column in the sheet
DerivarBanda ==
    /\ pc = "carregado"
    /\ result' = [carregado |-> result.carregado, final |-> derivar_banda(result.carregado)]
    /\ pc' = "derivado"
    /\ UNCHANGED <<now, cache, source, run, raw, pandas_infers>>

NextBanda == CarregarGrandeza \/ DerivarBanda

SpecBanda == InitBanda /\ [][NextBanda]_vars

\* b is what the first run of digits of the text g writes, missing when g has
\* no digit
PrimeiraSequencia(g, b) ==
    \/ /\ \A i \in 1..Len(g) : ~IsDigit(g[i])
       /\ b = NaN
    \/ \E i \in 1..Len(g) : \E j \in i..Len(g) :
          /\ \A a \in 1..(i - 1) : ~IsDigit(g[a])
          /\ \A a \in i..j : IsDigit(g[a])
          /\ j = Len(g) \/ ~IsDigit(g[j + 1])
          /\ b = [kind |-> "float", n |-> ToNat(SubSeq(g, i, j)), k |-> 0]

MaxRegistros == 3

\* the records of a sheet with a service, a municipality and a value: the
\* service b in the municipalities x and y, the service a in z
RegistrosRanking ==
    {<<Str(<<sm[1]>>), Str(<<sm[2]>>), va>> :
        sm \in {<<"b", "x">>, <<"b", "y">>, <<"a", "z">>},
        va \in {NaN, Str(<<"1", ",", "0", "0">>), Str(<<"R", "$", " ", "2", ",", "5", "0">>)}}

InitRanking ==
    /\ Parado
    /\ pandas_infers = TRUE
    /\ raw \in {[columns |-> <<<<"S", "e", "r", "v", "i", "&ccedil;", "o">>, <<"M", "u", "n", "i", "c", "&iacute;", "p", "i", "o">>,
                               <<"V", "a", "l", "o", "r", " ", "A", "t", "u", "a", "l">>>>,
                 rows    |-> rows] :
                   rows \in UNION {[1..n -> RegistrosRanking] : n \in 0..MaxRegistros}}
    /\ pc = "lido"
    /\ result = None

\* carregar_dados on the sheet
CarregarRanking ==
    /\ pc = "lido"
    /\ result' = [df |-> carregar_dados([ok |-> TRUE, df |-> raw], pandas_infers).df]
    /\ pc' = "carregado"
    /\ UNCHANGED <<now, cache, source, run, raw, pandas_infers>>

\* lines 143-149 and 159-176 of main, with every option selected
Classificar ==
    /\ pc = "carregado"
    /\ LET df         == result.df
           por_serv   == GroupSum(df, SERVICO, VALOR_ATUAL_LIMPO)
           por_munic  == GroupSum(df, MUNICIPIO, VALOR_ATUAL_LIMPO)
       IN  \E a \in sort_values(por_serv, FALSE) :
           \E t \in sort_values(por_munic, FALSE) :
           \E b \in sort_values(por_munic, TRUE) :
               result' = [df                |-> df,
                          arrec_servico     |-> Ranked(por_serv, a),
                          top_municipios    |-> Ranked(por_munic, head(t, TopN)),
                          bottom_municipios |-> Ranked(por_munic, head(b, TopN))]
    /\ pc' = "classificado"
    /\ UNCHANGED <<now, cache, source, run, raw, pandas_infers>>

NextRanking == CarregarRanking \/ Classificar

SpecRanking == InitRanking /\ [][NextRanking]_vars

\* the record in which a group is first found
PrimeiroRegistro(df, by, grupo) ==
    CHOOSE r \in 1..Len(df.rows) :
        /\ Series(df, by)[r] = grupo
        /\ \A q \in 1..(r - 1) : Series(df, by)[q] # grupo

\* groups of equal sums are listed in the order of their first records
EmpatesNaOrdemDosRegistros(df, by, ranking) ==
    \A i, j \in 1..Len(ranking) :
        (i < j /\ ranking[i].soma = ranking[j].soma) =>
            PrimeiroRegistro(df, by, ranking[i].grupo)
                < PrimeiroRegistro(df, by, ranking[j].grupo)

\* the ranking lists groups of the column, no group twice, each with the sum
\* of the values of its records, the sums falling (or rising) along it
Ordenado(df, by, ranking, ascending) ==
    /\ \A i \in 1..Len(ranking) :
          /\ ranking[i].grupo \in Unique(Series(df, by))
          /\ ranking[i].soma =
                Sum([r \in 1..Len(df.rows) |->
                        IF Series(df, by)[r] = ranking[i].grupo
                        THEN Series(df, VALOR_ATUAL_LIMPO)[r] ELSE NaN])
    /\ \A i, j \in 1..Len(ranking) :
          i < j => /\ ranking[i].grupo # ranking[j].grupo
                   /\ IF ascending THEN Leq(ranking[i].soma, ranking[j].soma)
                      ELSE Leq(ranking[j].soma, ranking[i].soma)

\* C6 as stated: in the three rankings, groups of equal sums come in the
\* order in which the dataset first shows them.
C6_Original ==
    pc = "classificado" =>
        /\ EmpatesNaOrdemDosRegistros(result.df, SERVICO, result.arrec_servico)
        /\ EmpatesNaOrdemDosRegistros(result.df, MUNICIPIO, result.top_municipios)
        /\ EmpatesNaOrdemDosRegistros(result.df, MUNICIPIO, result.bottom_municipios)

\* C6 amended: each ranking lists every group once (at most 15 of them for
\* the municipalities) with the sum of its records, the sums never rising
\* along arrec_servico and top_municipios and never falling along
\* bottom_municipios; nothing is said of the order of groups of equal sums.
C6_RankingSortedBySum ==
    pc = "classificado" =>
        LET nserv == Cardinality(Unique(Series(result.df, SERVICO)))
            nmun  == Cardinality(Unique(Series(result.df, MUNICIPIO)))
        IN  /\ Ordenado(result.df, SERVICO, result.arrec_servico, FALSE)
            /\ Ordenado(result.df, MUNICIPIO, result.top_municipios, FALSE)
            /\ Ordenado(result.df, MUNICIPIO, result.bottom_municipios, TRUE)
            /\ Len(result.arrec_servico) = nserv
            /\ Len(result.top_municipios) = (IF nmun < TopN THEN nmun ELSE TopN)
            /\ Len(result.bottom_municipios) = (IF nmun < TopN THEN nmun ELSE TopN)

\* three municipalities, two of them with equal sums, ranked with the larger
\* sum first and the equal ones after it, against the order of their records
C6_Witness ==
    /\ pc = "classificado"
    /\ Len(result.top_municipios) = 3
    /\ result.top_municipios[1].soma = Dec(25, 1)
    /\ result.top_municipios[2].soma = Dec(1, 0)
    /\ result.top_municipios[3].soma = Dec(1, 0)
    /\ PrimeiroRegistro(result.df, MUNICIPIO, result.top_municipios[3].grupo)
          < PrimeiroRegistro(result.df, MUNICIPIO, result.top_municipios[2].grupo)

\* ------------------------------------------------------- filters alone

MaxContratos == 3

\* what a sheet may say of a contract: its status, service and situation
ContratosFiltro ==
    {<<st, sv, si>> :
        st \in {Str(<<"a">>), Str(<<"B">>)},
        sv \in {Str(<<"r">>), Str(<<"f">>)},
        si \in {Str(<<"v">>), NaN}}

CabecalhosFiltro ==
    <<<<"S", "t", "a", "t", "u", "s">>, <<"S", "e", "r", "v", "i", "&ccedil;", "o">>,
      <<"S", "i", "t", "u", "a", "&ccedil;", "&atilde;", "o", " ", "d", "o", " ", "C", "o", "n", "t", "r", "a", "t", "o">>>>

\* the sheet with only the columns whose positions are in cols
QuadroFiltro(contratos, cols) ==
    [columns |-> SelectSeq(CabecalhosFiltro,
                           LAMBDA h : \E i \in cols : CabecalhosFiltro[i] = h),
     rows    |-> [r \in 1..Len(contratos) |->
                     Masked(contratos[r], [i \in 1..3 |-> i \in cols])]]

InitFiltro ==
    /\ Parado
    /\ pandas_infers = TRUE
    /\ raw \in {QuadroFiltro(contratos, cols) :
                   contratos \in UNION {[1..n -> ContratosFiltro] : n \in 0..MaxContratos},
                   cols \in SUBSET (1..3)}
    /\ pc = "lido"
    /\ result = None

\* carregar_dados on the sheet
CarregarFiltro ==
    /\ pc = "lido"
    /\ result' = [base |-> carregar_dados([ok |-> TRUE, df |-> raw], pandas_infers).df]
    /\ pc' = "carregado"
    /\ UNCHANGED <<now, cache, source, run, raw, pandas_infers>>

\* lines 78-96 of main, for every choice the three multiselects allow
Filtrar ==
    /\ pc = "carregado"
    /\ \E sel_status \in Selecoes(result.base, STATUS) :
         LET df1 == filtro(result.base, STATUS, sel_status)
         IN  \E sel_serv \in Selecoes(df1, SERVICO) :
               LET df2 == filtro(df1, SERVICO, sel_serv)
               IN  \E sel_situacao \in Selecoes(df2, SITUACAO_DO_CONTRATO) :
                     result' = [base         |-> result.base,
                                sel_status   |-> sel_status,
                                sel_serv     |-> sel_serv,
                                sel_situacao |-> sel_situacao,
                                df           |-> filtro(df2, SITUACAO_DO_CONTRATO, sel_situacao)]
    /\ pc' = "filtrado"
    /\ UNCHANGED <<now, cache, source, run, raw, pandas_infers>>

NextFiltro == CarregarFiltro \/ Filtrar

SpecFiltro == InitFiltro /\ [][NextFiltro]_vars

\* the filterable columns with the selection made for each
Filtraveis ==
    {<<STATUS, result.sel_status>>, <<SERVICO, result.sel_serv>>,
     <<SITUACAO_DO_CONTRATO, result.sel_situacao>>}

\* record r of the base dataset has an allowed value in column f[1], if present
Permitido(r, f) ==
    InColumns(result.base, f[1]) => Series(result.base, f[1])[r] \in f[2]

\* the records of the base dataset that one filter alone lets through
Passam(f) == {r \in 1..Len(result.base.rows) : Permitido(r, f)}

\* the i-th record, in the order of the dataset, among those of a set
Iesimo(S, i) == CHOOSE r \in S : Cardinality({q \in S : q < r}) = i - 1

\* C3: the filtered dataset has the columns of the base dataset and exactly
\* its records that have an allowed value in every filterable column that is
\* present, in their order: the records that each of the three filters alone
\* lets through, whatever the order of the filters.
C3_FiltersComposeAsIntersection ==
    pc = "filtrado" =>
        LET todos == {r \in 1..Len(result.base.rows) : \A f \in Filtraveis : Permitido(r, f)}
        IN  /\ result.df.columns = result.base.columns
            /\ todos = Passam(<<STATUS, result.sel_status>>)
                          \cap Passam(<<SERVICO, result.sel_serv>>)
                          \cap Passam(<<SITUACAO_DO_CONTRATO, result.sel_situacao>>)
            /\ Len(result.df.rows) = Cardinality(todos)
            /\ \A i \in 1..Len(result.df.rows) :
                  result.df.rows[i] = result.base.rows[Iesimo(todos, i)]

\* three contracts, each filter alone lets two of them through, and the three
\* filters together only one
C3_Witness ==
    /\ pc = "filtrado"
    /\ Len(result.base.rows) = 3
    /\ Len(result.base.columns) = 3
    /\ Cardinality(Passam(<<STATUS, result.sel_status>>)) = 2
    /\ Cardinality(Passam(<<SERVICO, result.sel_serv>>)) = 2
    /\ Cardinality(Passam(<<SITUACAO_DO_CONTRATO, result.sel_situacao>>)) = 2
    /\ Len(result.df.rows) = 1

\* C4: an empty selection for a filterable column that is present leaves no
\* record, whatever is selected for the other columns.
C4_EmptySelectionYieldsNoRecords ==
    pc = "filtrado" =>
        \A f \in Filtraveis :
            (InColumns(result.base, f[1]) /\ f[2] = {}) => result.df.rows = <<>>

\* contracts were loaded, a status was selected, and nothing was selected for
\* the service: no record is left
C4_Witness ==
    /\ pc = "filtrado"
    /\ Len(result.base.rows) = 3
    /\ InColumns(result.base, SERVICO)
    /\ result.sel_status # {}
    /\ result.sel_serv = {}
    /\ result.df.rows = <<>>

====
